---- MODULE Spec2Model ----
(***************************************************************************)
(* Model of the poker table page (PokerAIGamePage), the GenLayer bot       *)
(* adapter (getBotActionFromGenLayer, PokerPlayer) and the betting engine  *)
(* they call.  The page and the adapter are translated from their source;  *)
(* the engine functions (gameEngine, gameState) are not part of the        *)
(* available source and are modelled from the written specification.       *)
(*                                                                         *)
(* React state updates made in one synchronous run (an event handler, an   *)
(* effect, the continuation of an await) are committed together, so each   *)
(* such run is one action.  An effect runs after a commit that changed one *)
(* of its dependencies; the pending run is a variable of the model.        *)
(***************************************************************************)
EXTENDS Integers, FiniteSets, Sequences, TLC

---------------------------------------------------------------------------
(* Bounds of the model *)

\* chips every seat holds when the table is created
StartStack == 40
\* hands played before the Next Hand control is no longer exercised
MaxHands == 2

(* Program constants *)

NumPlayers == 3
SmallBlind == 10
BigBlind == 20
HumanSeat == 0

Seats == 0 .. (NumPlayers - 1)
Bots == Seats \ {HumanSeat}

Min(a, b) == IF a < b THEN a ELSE b

RECURSIVE SumOver(_, _)
SumOver(f, S) ==
    IF S = {} THEN 0
    ELSE LET x == CHOOSE y \in S : TRUE IN f[x] + SumOver(f, S \ {x})

---------------------------------------------------------------------------
(* Table / player model *)

NewPlayer(chips) ==
    [balance |-> chips, currentBet |-> 0, inGame |-> TRUE, isAllIn |-> FALSE,
     folded |-> FALSE, hasActed |-> FALSE]

\* gameState === null
NoGame ==
    [players |-> [i \in Seats |-> NewPlayer(0)], pot |-> 0, currentBet |-> 0,
     currentRound |-> "none", currentTurnIndex |-> 0 - 1, dealerPosition |-> 0,
     communityCards |-> 0, isHandComplete |-> FALSE]

createInitialGameState ==
    [players |-> [i \in Seats |-> NewPlayer(StartStack)], pot |-> 0,
     currentBet |-> 0, currentRound |-> "preflop", currentTurnIndex |-> 0,
     dealerPosition |-> 0, communityCards |-> 0, isHandComplete |-> FALSE]

Balances(gs) == [i \in Seats |-> gs.players[i].balance]
Bets(gs) == [i \in Seats |-> gs.players[i].currentBet]
ChipTotal(gs) == SumOver(Balances(gs), Seats) + gs.pot + SumOver(Bets(gs), Seats)

\* a seat that may still be asked for an action
CanAct(p) == p.inGame /\ ~p.folded /\ ~p.isAllIn
\* a seat that still contests the pot
Live(p) == p.inGame /\ ~p.folded

\* first seat after `from`, in table order with wrap-around, among the
\* `span` following seats, that may act; -1 when there is none
FirstActiveAfter(gs, from, span) ==
    LET offs == {k \in 1 .. span : CanAct(gs.players[(from + k) % NumPlayers])}
    IN IF offs = {} THEN 0 - 1
       ELSE (from + (CHOOSE k \in offs : \A j \in offs : k <= j)) % NumPlayers

getNextActivePlayerIndex(gs) ==
    FirstActiveAfter(gs, gs.currentTurnIndex, NumPlayers - 1)

\* round-completion predicate
isBettingRoundComplete(gs) ==
    \A i \in Seats :
        Live(gs.players[i]) =>
            \/ gs.players[i].isAllIn
            \/ gs.players[i].hasActed /\ gs.players[i].currentBet = gs.currentBet

\* chips moved from the seat's stack to its current-round bet
Commit(p, pay) ==
    [p EXCEPT !.balance = @ - pay, !.currentBet = @ + pay,
              !.isAllIn = (p.balance - pay = 0), !.hasActed = TRUE]

\* variant: a raise needs no minimum increment over the bet to match
IsLegalAction_NoMinimum(gs, idx, action, amount) ==
    LET p == gs.players[idx] IN
    CASE action = "fold" -> TRUE
      [] action = "check" -> p.currentBet = gs.currentBet
      [] action = "call" -> TRUE
      [] action = "raise" -> amount <= p.balance + p.currentBet
      [] OTHER -> FALSE

IsLegalAction(gs, idx, action, amount) ==
    LET p == gs.players[idx] IN
    CASE action = "fold" -> TRUE
      [] action = "check" -> p.currentBet = gs.currentBet
      [] action = "call" -> TRUE
      [] action = "raise" ->
            /\ amount >= gs.currentBet + BigBlind
            /\ amount <= p.balance + p.currentBet
      [] OTHER -> FALSE

\* the state after a legal action; the caller has checked IsLegalAction
ApplyAction(gs, idx, action, amount) ==
    LET p == gs.players[idx] IN
    CASE action = "fold" ->
            [gs EXCEPT !.players[idx].folded = TRUE, !.players[idx].hasActed = TRUE]
      [] action = "check" ->
            [gs EXCEPT !.players[idx].hasActed = TRUE]
      [] action = "call" ->
            [gs EXCEPT !.players[idx] =
                Commit(p, Min(gs.currentBet - p.currentBet, p.balance))]
      [] OTHER ->
            [gs EXCEPT
                !.players = [i \in Seats |->
                    IF i = idx THEN Commit(p, amount - p.currentBet)
                    ELSE [gs.players[i] EXCEPT !.hasActed = FALSE]],
                !.currentBet = amount]

\* processPlayerAction: ok = FALSE stands for the IllegalAction error, thrown
\* before anything is changed
processPlayerAction(gs, idx, action, amount) ==
    IF IsLegalAction(gs, idx, action, amount)
    THEN [ok |-> TRUE, state |-> ApplyAction(gs, idx, action, amount)]
    ELSE [ok |-> FALSE, state |-> gs]

NextRound(r) ==
    CASE r = "preflop" -> "flop"
      [] r = "flop" -> "turn"
      [] r = "turn" -> "river"
      [] OTHER -> "showdown"

CardsOn(r) ==
    CASE r = "flop" -> 3
      [] r = "turn" -> 4
      [] r = "river" -> 5
      [] OTHER -> 0

\* enter the next street: bets go to the pot, per-street tracking is reset,
\* the community cards of the street are dealt, action starts left of the
\* dealer; a street on which no seat can act is complete at once
RECURSIVE advanceToNextRound(_)
advanceToNextRound(gs) ==
    LET r == NextRound(gs.currentRound)
        swept ==
            [gs EXCEPT
                !.pot = gs.pot + SumOver(Bets(gs), Seats),
                !.players = [i \in Seats |->
                    [gs.players[i] EXCEPT !.currentBet = 0, !.hasActed = FALSE]],
                !.currentBet = 0,
                !.currentRound = r,
                !.communityCards = IF r = "showdown" THEN gs.communityCards ELSE CardsOn(r)]
        first == FirstActiveAfter(swept, gs.dealerPosition, NumPlayers)
    IN IF r = "showdown" THEN swept
       ELSE IF first < 0 THEN advanceToNextRound(swept)
       ELSE [swept EXCEPT !.currentTurnIndex = first]


\* first seat after `from`, in table order, that has chips
FirstFundedAfter(gs, from) ==
    LET offs == {k \in 1 .. NumPlayers : gs.players[(from + k) % NumPlayers].balance > 0}
    IN (from + (CHOOSE k \in offs : \A j \in offs : k <= j)) % NumPlayers

Funded(gs) == {i \in Seats : gs.players[i].balance > 0}

PostBlind(p, blind) ==
    LET pay == Min(blind, p.balance)
    IN [p EXCEPT !.balance = @ - pay, !.currentBet = pay, !.isAllIn = (p.balance - pay = 0)]

\* startNewHand: a fresh hand over the seats that have chips; the dealer
\* button moves on, the blinds are posted, action starts left of the big
\* blind (heads-up the dealer posts the small blind)
startNewHand(gs) ==
    LET dealer == FirstFundedAfter(gs, gs.dealerPosition)
        sb == IF Cardinality(Funded(gs)) = 2 THEN dealer ELSE FirstFundedAfter(gs, dealer)
        bb == FirstFundedAfter(gs, sb)
        seated == [i \in Seats |->
                     [NewPlayer(gs.players[i].balance) EXCEPT
                         !.inGame = gs.players[i].balance > 0]]
        posted == [i \in Seats |->
                     IF i = sb THEN PostBlind(seated[i], SmallBlind)
                     ELSE IF i = bb THEN PostBlind(seated[i], BigBlind)
                     ELSE seated[i]]
        dealt == [players |-> posted, pot |-> 0, currentBet |-> BigBlind,
                  currentRound |-> "preflop", currentTurnIndex |-> bb,
                  dealerPosition |-> dealer, communityCards |-> 0,
                  isHandComplete |-> FALSE]
        first == FirstActiveAfter(dealt, bb, NumPlayers)
    IN IF first < 0 THEN advanceToNextRound(dealt)
       ELSE [dealt EXCEPT !.currentTurnIndex = first]

\* strength[i]: the hand evaluator's value for seat i's best hand
Strengths == [Seats -> 1 .. 2]

Winners(gs, strength) ==
    LET live == {i \in Seats : Live(gs.players[i])}
    IN IF Cardinality(live) <= 1 THEN live
       ELSE {i \in live : \A j \in live : strength[i] >= strength[j]}

\* determineWinners: the single pot is split evenly among the winners, the
\* remainder goes to the first winner in table order
\* variant: the remainder of the division is given to nobody
determineWinners_DropRemainder(gs, strength) ==
    LET w == Winners(gs, strength)
        n == Cardinality(w)
    IN IF n = 0 THEN [gs EXCEPT !.isHandComplete = TRUE]
       ELSE [gs EXCEPT
                !.players = [i \in Seats |->
                    IF i \in w
                    THEN [gs.players[i] EXCEPT !.balance = @ + (gs.pot \div n)]
                    ELSE gs.players[i]],
                !.pot = 0,
                !.isHandComplete = TRUE]

determineWinners(gs, strength) ==
    LET w == Winners(gs, strength)
        n == Cardinality(w)
        first == CHOOSE i \in w : \A j \in w : i <= j
    IN IF n = 0 THEN [gs EXCEPT !.isHandComplete = TRUE]
       ELSE [gs EXCEPT
                !.players = [i \in Seats |->
                    IF i \in w
                    THEN [gs.players[i] EXCEPT !.balance =
                            @ + (gs.pot \div n) + (IF i = first THEN gs.pot % n ELSE 0)]
                    ELSE gs.players[i]],
                !.pot = 0,
                !.isHandComplete = TRUE]

---------------------------------------------------------------------------
(* The decision contract as the adapter sees it *)

NullId == "<null>"
Missing == "<missing>"
NotAString == "<number>"
NoAmount == 0 - 1

KnownActions == {"fold", "check", "call", "raise", "all-in"}
\* what the contract may answer in the action field of its result
RawActions ==
    KnownActions \cup {"Fold", "CHECK", "Raise", "ALL-IN", "bet", "", Missing, NotAString}

\* String.prototype.toLowerCase over the answers above
toLowerCase(s) ==
    CASE s = "Fold" -> "fold"
      [] s = "CHECK" -> "check"
      [] s = "Raise" -> "raise"
      [] s = "ALL-IN" -> "all-in"
      [] OTHER -> s

\* x || d for a string field of a receipt
OrElse(x, d) == IF x = Missing \/ x = "" THEN d ELSE x

\* one run of the remote calls: which of them throw and what they answer
DefaultEnv ==
    [createThrows |-> FALSE, rawGameId |-> "g", stateThrows |-> FALSE,
     boardSame |-> TRUE, potDelta |-> 0, betDelta |-> 0, updateThrows |-> FALSE,
     actionThrows |-> FALSE, rawAction |-> "fold", rawAmount |-> 0]

\* PokerPlayer.createGame
PokerPlayer_createGame(env) ==
    [threw |-> env.createThrows, game_id |-> OrElse(env.rawGameId, "")]

\* PokerPlayer.getGameState: the remote game's view, relative to the local one
PokerPlayer_getGameState(env, boardCards, pot, amountToCall) ==
    [threw |-> env.stateThrows,
     board_same |-> env.boardSame,
     pot_size |-> pot + env.potDelta,
     current_bet |-> amountToCall + env.betDelta]

\* variant: four community cards are already reported as the river
StageOf_RiverAtFour(cardCount) ==
    IF cardCount = 3 THEN "flop"
    ELSE IF cardCount >= 4 THEN "river"
    ELSE "preflop"

\* the stage getBotActionFromGenLayer reports to the contract, derived from
\* the number of community cards
StageOf(cardCount) ==
    IF cardCount = 3 THEN "flop"
    ELSE IF cardCount = 4 THEN "turn"
    ELSE IF cardCount = 5 THEN "river"
    ELSE "preflop"

\* PokerPlayer.updateStage
PokerPlayer_updateStage(env) == [threw |-> env.updateThrows]

\* PokerPlayer.getAction
PokerPlayer_getAction(env) ==
    [threw |-> env.actionThrows,
     action |-> OrElse(env.rawAction, "fold"),
     amount |-> env.rawAmount]

Abs(x) == IF x < 0 THEN 0 - x ELSE x

\* variant: a fallback that folds whenever chips are owed
FallbackDecision_Fold(gs, bot) ==
    IF gs.currentBet - gs.players[bot].currentBet = 0
    THEN [action |-> "check", raiseAmount |-> NoAmount]
    ELSE [action |-> "fold", raiseAmount |-> NoAmount]

\* the catch block: the decision returned when a remote call has thrown
FallbackDecision(gs, bot) ==
    IF gs.currentBet - gs.players[bot].currentBet = 0
    THEN [action |-> "check", raiseAmount |-> NoAmount]
    ELSE [action |-> "call", raiseAmount |-> NoAmount]

\* variant: a mapping that hands "all-in" and unknown names through
MapContractAction_PassThrough(action, amount, me) ==
    CASE action \in {"fold", "check", "call"} -> [action |-> action, raiseAmount |-> NoAmount]
      [] action = "raise" -> [action |-> "raise", raiseAmount |-> amount]
      [] OTHER -> [action |-> action, raiseAmount |-> me.balance + me.currentBet]

\* variant: a mapping whose last branch folds
MapContractAction_UnknownFolds(action, amount, me) ==
    CASE action \in {"fold", "check", "call"} -> [action |-> action, raiseAmount |-> NoAmount]
      [] action = "raise" -> [action |-> "raise", raiseAmount |-> amount]
      [] action = "all-in" ->
            [action |-> "raise", raiseAmount |-> me.balance + me.currentBet]
      [] OTHER -> [action |-> "fold", raiseAmount |-> NoAmount]

\* the mapping of the contract's action to the engine's vocabulary
MapContractAction(action, amount, me) ==
    CASE action = "fold" -> [action |-> "fold", raiseAmount |-> NoAmount]
      [] action = "check" -> [action |-> "check", raiseAmount |-> NoAmount]
      [] action = "call" -> [action |-> "call", raiseAmount |-> NoAmount]
      [] action = "raise" -> [action |-> "raise", raiseAmount |-> amount]
      [] action = "all-in" ->
            [action |-> "raise", raiseAmount |-> me.balance + me.currentBet]
      [] OTHER -> [action |-> "call", raiseAmount |-> NoAmount]

\* variant: a catch block whose result carries no game id
Caught_DropsId(gs, bot, gid, calls) ==
    [rejected |-> FALSE, failed |-> TRUE, decision |-> FallbackDecision(gs, bot),
     gameId |-> NullId, calls |-> calls]

\* variant: a catch block that throws the error on
Caught_Rethrown(gs, bot, gid, calls) ==
    [rejected |-> TRUE, failed |-> TRUE,
     decision |-> [action |-> "none", raiseAmount |-> NoAmount],
     gameId |-> gid, calls |-> calls]

\* the outcome of the catch block: the promise resolves
Caught(gs, bot, gid, calls) ==
    [rejected |-> FALSE, failed |-> TRUE, decision |-> FallbackDecision(gs, bot),
     gameId |-> gid, calls |-> calls]

\* variant: only a changed board makes the adapter update the remote game
NeedsUpdate_BoardOnly(remote, pot, amountToCall) == ~remote.board_same

\* the test that decides whether updateStage is called: the board differs, or
\* the pot or the bet differs by more than 1
NeedsUpdate(remote, pot, amountToCall) ==
    \/ ~remote.board_same
    \/ Abs(remote.pot_size - pot) > 1
    \/ Abs(remote.current_bet - amountToCall) > 1

getBotActionFromGenLayer(bot, gs, botGameId, env) ==
    LET me == gs.players[bot]
        amountToCall == gs.currentBet - me.currentBet
        ask(gid, calls) ==
            LET a == PokerPlayer_getAction(env)
                called == Append(calls, "getAction")
            IN IF a.threw \/ a.action = NotAString
               THEN Caught(gs, bot, gid, called)
               ELSE [rejected |-> FALSE, failed |-> FALSE,
                     decision |-> MapContractAction(toLowerCase(a.action), a.amount, me),
                     gameId |-> gid, calls |-> called]
    IN IF botGameId = NullId \/ botGameId = ""
       THEN LET c == PokerPlayer_createGame(env)
            IN IF c.threw THEN Caught(gs, bot, botGameId, <<"createGame">>)
               ELSE ask(c.game_id, <<"createGame">>)
       ELSE LET s == PokerPlayer_getGameState(env, gs.communityCards, gs.pot, amountToCall)
                stale == NeedsUpdate(s, gs.pot, amountToCall)
            IN IF s.threw THEN Caught(gs, bot, botGameId, <<"getGameState">>)
               ELSE IF ~stale THEN ask(botGameId, <<"getGameState">>)
               ELSE IF PokerPlayer_updateStage(env).threw
                    THEN Caught(gs, bot, botGameId, <<"getGameState", "updateStage">>)
                    ELSE ask(botGameId, <<"getGameState", "updateStage">>)


\* the amounts a raise is tried with: the minimum raise, the whole stack,
\* and more than the seat holds
AmountChoices(gs, idx) ==
    {gs.currentBet + BigBlind,
     gs.players[idx].balance + gs.players[idx].currentBet,
     gs.players[idx].balance + gs.players[idx].currentBet + SmallBlind}

ActionAnswers(gs, bot) ==
    {[DefaultEnv EXCEPT !.actionThrows = TRUE]}
    \cup {[DefaultEnv EXCEPT !.rawAction = a] : a \in RawActions}
    \cup {[DefaultEnv EXCEPT !.rawAction = a, !.rawAmount = m] :
            a \in {"raise", "Raise"}, m \in AmountChoices(gs, bot)}

\* how far the remote game's pot and bet are from the local ones
RemoteDeltas ==
    {<<0, 0>>, <<1, 0>>, <<0, 1>>, <<2, 0>>, <<0, 2>>, <<0 - 1, 0>>, <<0 - 2, 0>>, <<0, 0 - 2>>}

\* every run of the remote calls the adapter can meet for a request
RemoteEnvs(gs, bot, botGameId) ==
    IF botGameId = NullId \/ botGameId = ""
    THEN {[DefaultEnv EXCEPT !.createThrows = TRUE]}
         \cup {[a EXCEPT !.rawGameId = g] :
                 a \in ActionAnswers(gs, bot), g \in {Missing, "", "g"}}
    ELSE {[DefaultEnv EXCEPT !.stateThrows = TRUE]}
         \cup {[DefaultEnv EXCEPT !.boardSame = b, !.potDelta = d[1], !.betDelta = d[2],
                                  !.updateThrows = TRUE] :
                 b \in BOOLEAN, d \in RemoteDeltas}
         \cup {[a EXCEPT !.boardSame = b, !.potDelta = d[1], !.betDelta = d[2]] :
                 a \in ActionAnswers(gs, bot), b \in BOOLEAN, d \in RemoteDeltas}

\* the runs played at the table: one answer for each decision the adapter
\* can reach, with and without a stale remote game
TableAnswers(gs, bot) ==
    {[DefaultEnv EXCEPT !.actionThrows = TRUE]}
    \cup {[DefaultEnv EXCEPT !.rawAction = a] : a \in {"fold", "check", "call", "all-in", "bet"}}
    \cup {[DefaultEnv EXCEPT !.rawAction = "raise", !.rawAmount = m] :
            m \in {gs.currentBet + BigBlind,
                   gs.players[bot].balance + gs.players[bot].currentBet + SmallBlind}}

TableEnvs(gs, bot, botGameId) ==
    IF botGameId = NullId \/ botGameId = ""
    THEN {[DefaultEnv EXCEPT !.createThrows = TRUE]}
         \cup {[a EXCEPT !.rawGameId = g] : a \in TableAnswers(gs, bot), g \in {"", "g"}}
    ELSE {[DefaultEnv EXCEPT !.stateThrows = TRUE],
          [DefaultEnv EXCEPT !.boardSame = FALSE, !.updateThrows = TRUE]}
         \cup {[a EXCEPT !.boardSame = b] : a \in TableAnswers(gs, bot), b \in BOOLEAN}

---------------------------------------------------------------------------
(* The page: PokerAIGamePage *)

VARIABLES
    account,               \* an account is connected
    contract,              \* the PokerPlayer instance is set
    contractDeployed,
    isDeploying,
    deploymentError,       \* a deployment error message is set
    gameState,
    isProcessing,
    showNextHandButton,
    botGameIds,
    botThinking,
    isActionInProgressRef,
    initialBalancesRef,
    requests,              \* calls of getBotActionFromGenLayer not yet continued
    timeouts,              \* setTimeout(0) callbacks of handlePlayerAction not yet run
    deploying,             \* calls of deployContract not yet finished
    botEffectPending,      \* the bot-turn effect is due to run
    deployEffectPending,   \* the deployment effect is due to run
    handsPlayed,
    lastOp,                \* what the last handler did to the table
    probe                  \* the adapter applied to one drawn input

vars ==
    <<account, contract, contractDeployed, isDeploying, deploymentError, gameState,
      isProcessing, showNextHandButton, botGameIds, botThinking,
      isActionInProgressRef, initialBalancesRef, requests, timeouts, deploying,
      botEffectPending, deployEffectPending, handsPlayed, lastOp, probe>>

deployVars == <<account, contract, contractDeployed, isDeploying, deploymentError, deploying, deployEffectPending>>

NoDecision == [action |-> "none", raiseAmount |-> NoAmount]
NoResult ==
    [rejected |-> FALSE, failed |-> FALSE, decision |-> NoDecision, gameId |-> NullId,
     calls |-> <<>>]

NoOp ==
    [kind |-> "none", seat |-> 0 - 1, action |-> "none", amount |-> NoAmount,
     applied |-> "none", failed |-> FALSE, threw |-> FALSE, round |-> "none",
     toMatch |-> 0, gameId |-> NullId]

NoProbe ==
    [bot |-> 0 - 1, gs |-> NoGame, botGameId |-> NullId, env |-> DefaultEnv,
     called |-> FALSE, out |-> NoResult]

Init ==
    /\ account = FALSE
    /\ contract = FALSE
    /\ contractDeployed = FALSE
    /\ isDeploying = FALSE
    /\ deploymentError = FALSE
    /\ gameState = NoGame
    /\ isProcessing = FALSE
    /\ showNextHandButton = FALSE
    /\ botGameIds = [b \in Bots |-> NullId]
    /\ botThinking = {}
    /\ isActionInProgressRef = FALSE
    /\ initialBalancesRef = [i \in Seats |-> 0]
    /\ requests = <<>>
    /\ timeouts = 0
    /\ deploying = 0
    /\ botEffectPending = TRUE
    /\ deployEffectPending = TRUE
    /\ handsPlayed = 0
    /\ lastOp = NoOp
    /\ probe = NoProbe

\* the values the bot-turn effect depends on
BotEffectDeps(gs, c, deployed) == <<gs.currentTurnIndex, gs.currentRound, c, deployed>>

\* the bot-turn effect is due after a commit that changed a dependency;
\* a botGameIds map that was set anew always counts as changed
BotEffectDue(idsSet) ==
    \/ botEffectPending
    \/ idsSet
    \/ BotEffectDeps(gameState', contract', contractDeployed')
         # BotEffectDeps(gameState, contract, contractDeployed)

\* Effects are flushed right after the commit that made them due, before
\* the next event (a click, a settled promise) is handled; the timer of
\* handlePlayerAction is the one callback that may run on either side of them
EffectsFlushed == ~botEffectPending /\ ~deployEffectPending

(* Connecting the account and deploying the contract *)

ConnectAccount ==
    /\ EffectsFlushed
    /\ ~account
    /\ account' = TRUE
    /\ deployEffectPending' = TRUE
    /\ UNCHANGED <<contract, contractDeployed, isDeploying, deploymentError, gameState,
                   isProcessing, showNextHandButton, botGameIds, botThinking,
                   isActionInProgressRef, initialBalancesRef, requests, timeouts,
                   deploying, botEffectPending, handsPlayed, lastOp, probe>>

\* the guard of deployContract
deployContractRuns == account /\ ~contractDeployed /\ ~isDeploying

DeployStart ==
    /\ deployEffectPending
    /\ deployContractRuns
    /\ isDeploying' = TRUE
    /\ deploymentError' = FALSE
    /\ deploying' = deploying + 1
    /\ deployEffectPending' = TRUE
    /\ UNCHANGED <<account, contract, contractDeployed, gameState, isProcessing,
                   showNextHandButton, botGameIds, botThinking, isActionInProgressRef,
                   initialBalancesRef, requests, timeouts, botEffectPending,
                   handsPlayed, lastOp, probe>>

DeploySkip ==
    /\ deployEffectPending
    /\ ~deployContractRuns
    /\ deployEffectPending' = FALSE
    /\ UNCHANGED <<account, contract, contractDeployed, isDeploying, deploymentError,
                   gameState, isProcessing, showNextHandButton, botGameIds, botThinking,
                   isActionInProgressRef, initialBalancesRef, requests, timeouts,
                   deploying, botEffectPending, handsPlayed, lastOp, probe>>

DeployFinish(ok) ==
    /\ EffectsFlushed
    /\ deploying > 0
    /\ deploying' = deploying - 1
    /\ isDeploying' = FALSE
    /\ contract' = (contract \/ ok)
    /\ contractDeployed' = (contractDeployed \/ ok)
    /\ deploymentError' = (IF ok THEN deploymentError ELSE TRUE)
    /\ deployEffectPending' = TRUE
    /\ botEffectPending' = (botEffectPending \/ (ok /\ ~contractDeployed))
    /\ UNCHANGED <<account, gameState, isProcessing, showNextHandButton, botGameIds,
                   botThinking, isActionInProgressRef, initialBalancesRef, requests,
                   timeouts, handsPlayed, lastOp, probe>>

(* Starting a hand *)

\* variant: the stacks read after the blinds are posted
CapturedBalances_AfterDeal(from) == Balances(startNewHand(from))

\* the stacks the page remembers as the hand's starting point, read before
\* startNewHand runs
CapturedBalances(from) == Balances(from)

BeginHand(from) ==
    /\ initialBalancesRef' = CapturedBalances(from)
    /\ gameState' = startNewHand(from)
    /\ showNextHandButton' = FALSE
    /\ botGameIds' = [b \in Bots |-> NullId]
    /\ botEffectPending' = TRUE
    /\ handsPlayed' = handsPlayed + 1
    /\ lastOp' = [NoOp EXCEPT !.kind = "newHand"]
    /\ UNCHANGED <<isProcessing, botThinking, isActionInProgressRef, requests, timeouts, probe>>
    /\ UNCHANGED deployVars

\* variant: the effect without its return when a table already exists
StartFirstHand_Repeats ==
    /\ contractDeployed
    /\ BeginHand(createInitialGameState)

\* the effect that starts the first hand once the contract is deployed
StartFirstHand ==
    /\ contractDeployed
    /\ gameState = NoGame
    /\ BeginHand(createInitialGameState)

\* what the page renders: the table and its controls are shown only past
\* the deployment and loading screens
PageShowsTable == ~isDeploying /\ ~deploymentError /\ gameState # NoGame

handleNextHand ==
    /\ EffectsFlushed
    /\ PageShowsTable
    /\ showNextHandButton
    /\ handsPlayed < MaxHands
    /\ Cardinality(Funded(gameState)) >= 2
    /\ BeginHand(gameState)


(* Applying an action to the table *)

\* variant: a completed round moves the hand on by two streets
AfterAction_AdvanceTwice(newState) ==
    IF isBettingRoundComplete(newState)
    THEN advanceToNextRound(advanceToNextRound(newState))
    ELSE IF getNextActivePlayerIndex(newState) >= 0
    THEN [newState EXCEPT !.currentTurnIndex = getNextActivePlayerIndex(newState)]
    ELSE advanceToNextRound(newState)

\* variant: the turn is passed to the neighbouring seat, whatever its state
AfterAction_NeighbourSeat(newState) ==
    IF isBettingRoundComplete(newState) THEN advanceToNextRound(newState)
    ELSE [newState EXCEPT !.currentTurnIndex = (newState.currentTurnIndex + 1) % NumPlayers]

\* variant: the turn is passed on without asking whether the round is over
AfterAction_NoCompletionCheck(newState) ==
    IF getNextActivePlayerIndex(newState) >= 0
    THEN [newState EXCEPT !.currentTurnIndex = getNextActivePlayerIndex(newState)]
    ELSE advanceToNextRound(newState)

\* after an applied action: the next street when the betting round is
\* complete or nobody is left to act, the next seat otherwise
AfterAction(newState) ==
    IF isBettingRoundComplete(newState) THEN advanceToNextRound(newState)
    ELSE IF getNextActivePlayerIndex(newState) >= 0
         THEN [newState EXCEPT !.currentTurnIndex = getNextActivePlayerIndex(newState)]
         ELSE advanceToNextRound(newState)

\* processPlayerAction followed by the completion check; ok = FALSE when
\* processPlayerAction threw
ApplyAndAdvance(gs, idx, action, amount) ==
    LET r == processPlayerAction(gs, idx, action, amount)
    IN IF r.ok THEN [ok |-> TRUE, state |-> AfterAction(r.state)]
       ELSE [ok |-> FALSE, state |-> gs]

\* the catch block of handleBotTurn: the bot folds, the turn moves on
CatchFold(gs) ==
    LET folded == processPlayerAction(gs, gs.currentTurnIndex, "fold", NoAmount).state
    IN IF getNextActivePlayerIndex(folded) >= 0
       THEN [folded EXCEPT !.currentTurnIndex = getNextActivePlayerIndex(folded)]
       ELSE advanceToNextRound(folded)

\* variant: nothing is written back when the adapter reports a failure
BotWriteBack_DropOnFailure(gs, result) ==
    LET step == ApplyAndAdvance(gs, gs.currentTurnIndex, result.decision.action,
                                result.decision.raiseAmount)
    IN IF result.failed THEN [threw |-> FALSE, state |-> gs]
       ELSE IF ~result.rejected /\ step.ok
       THEN [threw |-> FALSE, state |-> step.state]
       ELSE [threw |-> TRUE, state |-> CatchFold(gs)]

\* what handleBotTurn writes back for a result of the adapter
BotWriteBack(gs, result) ==
    LET step == ApplyAndAdvance(gs, gs.currentTurnIndex, result.decision.action,
                                result.decision.raiseAmount)
    IN IF ~result.rejected /\ step.ok
       THEN [threw |-> FALSE, state |-> step.state]
       ELSE [threw |-> TRUE, state |-> CatchFold(gs)]

(* The bot-turn effect *)

\* the effect's early returns that depend on the table alone
BotTurnWanted ==
    /\ gameState # NoGame
    /\ contract
    /\ contractDeployed
    /\ ~gameState.isHandComplete
    /\ gameState.currentRound # "showdown"
    /\ gameState.currentTurnIndex \in Seats
    /\ gameState.currentTurnIndex # HumanSeat

\* the effect's early return on the rendered busy state
RenderedBusy == isProcessing \/ gameState.currentTurnIndex \in botThinking

\* variant: handleBotTurn without its check of the in-progress flag
ActionInProgress_Off == FALSE

\* the first line of handleBotTurn
ActionInProgress == isActionInProgressRef

\* variant: the effect run again on every render, without its busy checks
BotTurnStart_Unguarded ==
    /\ BotTurnWanted
    /\ botEffectPending' = FALSE
    /\ isActionInProgressRef' = TRUE
    /\ isProcessing' = TRUE
    /\ botThinking' = botThinking \cup {gameState.currentTurnIndex}
    /\ requests' = Append(requests,
            [bot |-> gameState.currentTurnIndex, gs |-> gameState,
             botGameId |-> botGameIds[gameState.currentTurnIndex]])
    /\ lastOp' = [NoOp EXCEPT !.kind = "botStart", !.seat = gameState.currentTurnIndex]
    /\ UNCHANGED <<gameState, showNextHandButton, botGameIds, initialBalancesRef,
                   timeouts, handsPlayed, probe>>
    /\ UNCHANGED deployVars

\* handleBotTurn up to its await: the guards pass, the flags are set and
\* the request to the adapter is issued
BotTurnStart ==
    /\ botEffectPending
    /\ BotTurnWanted
    /\ ~RenderedBusy
    /\ ~ActionInProgress
    /\ botEffectPending' = FALSE
    /\ isActionInProgressRef' = TRUE
    /\ isProcessing' = TRUE
    /\ botThinking' = botThinking \cup {gameState.currentTurnIndex}
    /\ requests' = Append(requests,
            [bot |-> gameState.currentTurnIndex, gs |-> gameState,
             botGameId |-> botGameIds[gameState.currentTurnIndex]])
    /\ lastOp' = [NoOp EXCEPT !.kind = "botStart", !.seat = gameState.currentTurnIndex]
    /\ UNCHANGED <<gameState, showNextHandButton, botGameIds, initialBalancesRef,
                   timeouts, handsPlayed, probe>>
    /\ UNCHANGED deployVars

BotTurnRejected ==
    /\ botEffectPending
    /\ BotTurnWanted
    /\ RenderedBusy \/ ActionInProgress
    /\ botEffectPending' = FALSE
    /\ lastOp' = [NoOp EXCEPT !.kind = "botRejected", !.seat = gameState.currentTurnIndex]
    /\ UNCHANGED <<gameState, isProcessing, showNextHandButton, botGameIds, botThinking,
                   isActionInProgressRef, initialBalancesRef, requests, timeouts,
                   handsPlayed, probe>>
    /\ UNCHANGED deployVars

BotTurnSkip ==
    /\ botEffectPending
    /\ ~BotTurnWanted
    /\ botEffectPending' = FALSE
    /\ UNCHANGED <<gameState, isProcessing, showNextHandButton, botGameIds, botThinking,
                   isActionInProgressRef, initialBalancesRef, requests, timeouts,
                   handsPlayed, lastOp, probe>>
    /\ UNCHANGED deployVars

\* variant: the id a call returns is never stored
StoresGameId_Never(result, botGameId) == FALSE

\* whether handleBotTurn stores the game id of a result: it must be a
\* non-empty string other than the id the request was made with
StoresGameId(result, botGameId) ==
    /\ ~result.rejected
    /\ result.gameId \notin {NullId, ""}
    /\ result.gameId # botGameId

\* the sequence without its i-th element
Without(q, i) == [j \in 1 .. (Len(q) - 1) |-> IF j < i THEN q[j] ELSE q[j + 1]]

\* handleBotTurn from the await on: the remote calls of the request run to
\* their end under some outcome `env`, the adapter's promise settles and the
\* continuation applies the decision to the table it captured
BotResolve ==
    \E i \in 1 .. Len(requests) :
        LET r == requests[i] IN
        /\ EffectsFlushed
        /\ \E env \in TableEnvs(r.gs, r.bot, r.botGameId) :
              LET res == getBotActionFromGenLayer(r.bot, r.gs, r.botGameId, env)
                  idsSet == StoresGameId(res, r.botGameId)
                  wb == BotWriteBack(r.gs, res)
              IN /\ botGameIds' = IF idsSet THEN [botGameIds EXCEPT ![r.bot] = res.gameId]
                                  ELSE botGameIds
                 /\ gameState' = wb.state
                 /\ lastOp' = [kind |-> "bot", seat |-> r.gs.currentTurnIndex,
                               action |-> res.decision.action,
                               amount |-> res.decision.raiseAmount,
                               applied |-> IF wb.threw THEN "fold" ELSE res.decision.action,
                               failed |-> res.failed, threw |-> wb.threw,
                               round |-> r.gs.currentRound, toMatch |-> r.gs.currentBet,
                               gameId |-> res.gameId]
                 /\ UNCHANGED <<contract, contractDeployed>>
                 /\ botEffectPending' = BotEffectDue(idsSet)
        /\ isProcessing' = FALSE
        /\ botThinking' = botThinking \ {r.bot}
        /\ isActionInProgressRef' = FALSE
        /\ requests' = Without(requests, i)
        /\ UNCHANGED <<account, isDeploying, deploymentError, deploying, deployEffectPending,
                       showNextHandButton, initialBalancesRef, timeouts, handsPlayed, probe>>

(* The human's controls *)

\* variant: the betting controls stay up at showdown and after settlement
isHumanTurn_AnyStage == gameState.currentTurnIndex = HumanSeat

\* variant: the betting controls are shown whoever's turn it is
isHumanTurn_AnyTurn ==
    /\ ~gameState.isHandComplete
    /\ gameState.currentRound # "showdown"

isHumanTurn ==
    /\ gameState.currentTurnIndex = HumanSeat
    /\ ~gameState.isHandComplete
    /\ gameState.currentRound # "showdown"

\* the guard of handlePlayerAction
PlayerActionBlocked == isProcessing \/ isActionInProgressRef

HumanInputs ==
    {<<a, NoAmount>> : a \in {"fold", "check", "call"}}
    \cup {<<"raise", m>> : m \in AmountChoices(gameState, HumanSeat)}

\* variant: a handler that folds the human when processPlayerAction throws
PlayerWriteBack_FoldOnThrow(gs, action, raiseAmount) ==
    LET step == ApplyAndAdvance(gs, HumanSeat, action, raiseAmount)
    IN IF step.ok THEN [threw |-> FALSE, state |-> step.state]
       ELSE [threw |-> TRUE, state |-> CatchFold(gs)]

\* what handlePlayerAction writes back: nothing when processPlayerAction
\* throws, as the handler has no catch block
PlayerWriteBack(gs, action, raiseAmount) ==
    LET step == ApplyAndAdvance(gs, HumanSeat, action, raiseAmount)
    IN IF step.ok THEN [threw |-> FALSE, state |-> step.state]
       ELSE [threw |-> TRUE, state |-> gs]

handlePlayerAction(action, raiseAmount) ==
    /\ EffectsFlushed
    /\ PageShowsTable
    /\ isHumanTurn
    /\ ~PlayerActionBlocked
    /\ isActionInProgressRef' = TRUE
    /\ timeouts' = timeouts + 1
    /\ LET wb == PlayerWriteBack(gameState, action, raiseAmount)
       IN /\ gameState' = wb.state
          /\ lastOp' = [kind |-> "human", seat |-> HumanSeat, action |-> action,
                        amount |-> raiseAmount,
                        applied |-> IF wb.threw THEN "none" ELSE action,
                        failed |-> FALSE, threw |-> wb.threw,
                        round |-> gameState.currentRound,
                        toMatch |-> gameState.currentBet,
                        gameId |-> NullId]
    /\ UNCHANGED <<contract, contractDeployed>>
    /\ botEffectPending' = BotEffectDue(FALSE)
    /\ UNCHANGED <<account, isDeploying, deploymentError, deploying, deployEffectPending,
                   isProcessing, showNextHandButton, botGameIds, botThinking,
                   initialBalancesRef, requests, handsPlayed, probe>>

PlayerActionRejected ==
    /\ EffectsFlushed
    /\ PageShowsTable
    /\ isHumanTurn
    /\ PlayerActionBlocked
    /\ lastOp' = [NoOp EXCEPT !.kind = "humanRejected", !.seat = HumanSeat]
    /\ UNCHANGED <<gameState, isProcessing, showNextHandButton, botGameIds, botThinking,
                   isActionInProgressRef, initialBalancesRef, requests, timeouts,
                   botEffectPending, handsPlayed, probe>>
    /\ UNCHANGED deployVars

\* variant: a callback that resets isProcessing only and leaves the ref set
RunTimeout_KeepsFlag ==
    /\ timeouts > 0
    /\ timeouts' = timeouts - 1
    /\ isProcessing' = FALSE
    /\ UNCHANGED <<gameState, showNextHandButton, botGameIds, botThinking,
                   isActionInProgressRef, initialBalancesRef, requests, botEffectPending,
                   handsPlayed, lastOp, probe>>
    /\ UNCHANGED deployVars

\* the setTimeout(0) callback of handlePlayerAction
RunTimeout ==
    /\ timeouts > 0
    /\ timeouts' = timeouts - 1
    /\ isActionInProgressRef' = FALSE
    /\ isProcessing' = FALSE
    /\ UNCHANGED <<gameState, showNextHandButton, botGameIds, botThinking,
                   initialBalancesRef, requests, botEffectPending, handsPlayed, lastOp,
                   probe>>
    /\ UNCHANGED deployVars

(* Settlement *)

\* variant: the effect settles an unfinished hand on any street
SettlementDue_AnyRound ==
    /\ gameState # NoGame
    /\ ~gameState.isHandComplete

\* variant: the effect settles at showdown whether or not the hand is complete
SettlementDue_IgnoresFlag ==
    /\ gameState # NoGame
    /\ gameState.currentRound = "showdown"

\* the guard of the effect
SettlementDue ==
    /\ gameState # NoGame
    /\ gameState.currentRound = "showdown"
    /\ ~gameState.isHandComplete

\* lastOp.amount records the pot the settlement found
DetermineWinnersEffect ==
    /\ SettlementDue
    /\ \E strength \in Strengths : gameState' = determineWinners(gameState, strength)
    /\ showNextHandButton' = TRUE
    /\ lastOp' = [NoOp EXCEPT !.kind = "settle", !.amount = gameState.pot]
    /\ UNCHANGED <<isProcessing, botGameIds, botThinking, isActionInProgressRef,
                   initialBalancesRef, requests, timeouts, botEffectPending, handsPlayed,
                   probe>>
    /\ UNCHANGED deployVars

Next ==
    \/ ConnectAccount
    \/ DeployStart
    \/ DeploySkip
    \/ \E ok \in BOOLEAN : DeployFinish(ok)
    \/ StartFirstHand
    \/ handleNextHand
    \/ BotTurnStart
    \/ BotTurnRejected
    \/ BotTurnSkip
    \/ BotResolve
    \/ \E in \in HumanInputs : handlePlayerAction(in[1], in[2])
    \/ PlayerActionRejected
    \/ RunTimeout
    \/ DetermineWinnersEffect

Spec == Init /\ [][Next]_vars


---------------------------------------------------------------------------
(* The adapter on its own: getBotActionFromGenLayer applied to one request *)
(* drawn from the tables of the first betting round and every run of the   *)
(* remote calls                                                            *)

LegalMoves(gs) ==
    {m \in {<<a, NoAmount>> : a \in {"fold", "check", "call"}}
           \cup {<<"raise", x>> : x \in AmountChoices(gs, gs.currentTurnIndex)} :
        IsLegalAction(gs, gs.currentTurnIndex, m[1], m[2])}

FirstTable == startNewHand(createInitialGameState)

\* the tables on which a bot is asked, up to two actions into the hand
ProbeTables ==
    LET T1 == {AfterAction(ApplyAction(FirstTable, FirstTable.currentTurnIndex, m[1], m[2])) :
                 m \in LegalMoves(FirstTable)}
        T2 == UNION {{AfterAction(ApplyAction(t, t.currentTurnIndex, m[1], m[2])) :
                        m \in LegalMoves(t)} : t \in {u \in T1 : u.currentRound # "showdown"}}
    IN {t \in {FirstTable} \cup T1 \cup T2 :
            t.currentRound # "showdown" /\ t.currentTurnIndex \in Bots}

AdapterInit ==
    /\ account = FALSE
    /\ contract = FALSE
    /\ contractDeployed = FALSE
    /\ isDeploying = FALSE
    /\ deploymentError = FALSE
    /\ gameState = NoGame
    /\ isProcessing = FALSE
    /\ showNextHandButton = FALSE
    /\ botGameIds = [b \in Bots |-> NullId]
    /\ botThinking = {}
    /\ isActionInProgressRef = FALSE
    /\ initialBalancesRef = [i \in Seats |-> 0]
    /\ requests = <<>>
    /\ timeouts = 0
    /\ deploying = 0
    /\ botEffectPending = TRUE
    /\ deployEffectPending = TRUE
    /\ handsPlayed = 0
    /\ lastOp = NoOp
    /\ \E gs \in ProbeTables, id \in {NullId, "g"} :
          \E env \in RemoteEnvs(gs, gs.currentTurnIndex, id) :
              probe = [bot |-> gs.currentTurnIndex, gs |-> gs, botGameId |-> id,
                       env |-> env, called |-> FALSE, out |-> NoResult]

AdapterCall ==
    /\ ~probe.called
    /\ probe' = [probe EXCEPT
                    !.called = TRUE,
                    !.out = getBotActionFromGenLayer(probe.bot, probe.gs, probe.botGameId,
                                                     probe.env)]
    /\ UNCHANGED <<account, contract, contractDeployed, isDeploying, deploymentError,
                   gameState, isProcessing, showNextHandButton, botGameIds, botThinking,
                   isActionInProgressRef, initialBalancesRef, requests, timeouts,
                   deploying, botEffectPending, deployEffectPending, handsPlayed, lastOp>>

AdapterNext == AdapterCall

AdapterSpec == AdapterInit /\ [][AdapterNext]_vars


\* BotResolve can be taken: a request is pending and the effects are flushed
\* (every request has at least one outcome)
ResolveDue == requests # << >> /\ EffectsFlushed

\* The remote calls of a pending request end, by an answer or by an error
\* (genlayer-js gives up after its retries), and React runs a scheduled
\* effect: weak fairness of BotResolve, written out with ResolveDue as its
\* enabling condition, and of the two effects
FairSpec ==
    /\ Init
    /\ [][Next]_vars
    /\ ([]<>(~ResolveDue) \/ []<><<Len(requests') < Len(requests)>>_vars)
    /\ WF_vars(BotTurnStart \/ BotTurnRejected \/ BotTurnSkip)
    /\ WF_vars(DeployStart \/ DeploySkip)

---------------------------------------------------------------------------
(* Properties *)

\* the handler steps, told apart by what only they do
IsPlayerActionStep == timeouts' = timeouts + 1
IsBotResolveStep == Len(requests') < Len(requests)
\* the table the step's action was applied to, its seat and its input
StepTable == IF IsBotResolveStep THEN requests[1].gs ELSE gameState
StepSeat == StepTable.currentTurnIndex
Owes(gs, seat) == gs.currentBet - gs.players[seat].currentBet

\* the street was left in the step
StreetAdvanced == gameState'.currentRound # StepTable.currentRound
\* the table right after the step's action, before the turn or street moves
StepApplied ==
    processPlayerAction(StepTable, StepSeat, lastOp'.applied, lastOp'.amount).state
\* the round-completion condition, stated on a table
EverySeatSettled(gs) ==
    \A i \in Seats :
        (gs.players[i].inGame /\ ~gs.players[i].folded)
            => \/ gs.players[i].isAllIn
               \/ gs.players[i].hasActed /\ gs.players[i].currentBet = gs.currentBet

\* C1: within a hand the seat stacks, the pot and the current-round bets
\* always add up to the total the hand started with, and only the settlement
\* step moves chips from the pot to a stack
C1_ChipConservation ==
    /\ [](gameState # NoGame =>
            ChipTotal(gameState) = SumOver(initialBalancesRef, Seats))
    /\ [][(gameState # NoGame /\ handsPlayed' = handsPlayed
            /\ \E i \in Seats : gameState'.players[i].balance > gameState.players[i].balance)
          => /\ gameState.currentRound = "showdown"
             /\ ~gameState.isHandComplete
             /\ gameState'.isHandComplete
             /\ gameState'.pot = 0]_vars

\* C1 witness: a hand in which bets were made and swept into the pot
C1_Witness ==
    /\ gameState # NoGame
    /\ gameState.currentRound = "flop"
    /\ gameState.pot > SmallBlind + BigBlind
    /\ \E i \in Seats : gameState.players[i].currentBet > 0


\* C2: at most one action is in flight at any time (a pending bot decision,
\* or a human action whose guard is still held); while one is in flight the
\* guard is set; a rejected human action or bot turn leaves the table state
\* as it was; and an action is applied only when no other one is in flight
C2_ReentrancyGuard ==
    /\ [](Len(requests) + timeouts <= 1)
    /\ [](Len(requests) + timeouts = 1 => isActionInProgressRef)
    /\ [][(lastOp' # lastOp /\ lastOp'.kind \in {"botRejected", "humanRejected"})
            => gameState' = gameState]_vars
    /\ [][IsPlayerActionStep => Len(requests) = 0 /\ timeouts = 0]_vars
    /\ [][IsBotResolveStep => Len(requests) = 1 /\ timeouts = 0]_vars

\* C2 witness: a bot turn was turned away while another action was in flight
C2_Witness ==
    /\ lastOp.kind = "botRejected"
    /\ isActionInProgressRef
    /\ timeouts = 1

C4_FailureStillProgresses ==
    /\ \A b \in Bots :
          (requests # << >> /\ requests[1].bot = b)
              ~> (requests = << >> /\ lastOp.kind = "bot" /\ lastOp.seat = b
                    /\ lastOp.applied \in KnownActions)
    /\ [][(IsBotResolveStep /\ lastOp'.failed)
          => /\ ~lastOp'.threw
             /\ gameState'.players[StepSeat].hasActed \/ StreetAdvanced
             /\ gameState'.currentTurnIndex # StepSeat \/ StreetAdvanced]_vars

\* C4 witness: after a failed request the turn went to the next seat within
\* the same street
C4_Witness ==
    /\ lastOp.kind = "bot"
    /\ lastOp.failed
    /\ gameState.currentRound = lastOp.round
    /\ gameState.currentTurnIndex \in Seats \ {lastOp.seat}


\* C5: getBotActionFromGenLayer is never called while an earlier call is
\* outstanding: at most one request is pending, a request is issued only
\* when none is pending, and it stays pending until it resolves or fails
C5_SingleOutstandingRequest ==
    /\ [](Len(requests) <= 1)
    /\ [][Len(requests') > Len(requests) => requests = << >>]_vars
    /\ [][(requests # << >> /\ requests' # << >>) => requests' = requests]_vars

\* C5 witness: a second bot's request issued after the first bot's request
\* has resolved and stored a game id
C5_Witness ==
    /\ Len(requests) = 1
    /\ \E b \in Bots : b # requests[1].bot /\ botGameIds[b] # NullId

\* the probe's call reached getAction and getAction answered
Answered ==
    /\ probe.called
    /\ probe.out.calls[Len(probe.out.calls)] = "getAction"
    /\ ~probe.env.actionThrows
\* a remote call of the probe threw
RemoteThrew ==
    /\ probe.called
    /\ \/ probe.out.calls = <<"createGame">>
       \/ probe.out.calls[Len(probe.out.calls)] \in {"getGameState", "updateStage"}
       \/ probe.env.actionThrows

\* C6: whatever the remote calls do, getBotActionFromGenLayer resolves with
\* a decision and never rejects
C6_AdapterNeverRejects ==
    probe.called
        => /\ ~probe.out.rejected
           /\ probe.out.decision.action \in KnownActions
           /\ RemoteThrew => probe.out.failed

\* C6 witness: updateStage threw and the call resolved with a decision
C6_Witness ==
    /\ probe.called
    /\ probe.out.calls = <<"getGameState", "updateStage">>
    /\ probe.env.updateThrows
    /\ probe.out.failed
    /\ ~probe.out.rejected

\* C7: the action of every decision getBotActionFromGenLayer returns is one
\* of fold, check, call, raise
C7_DecisionVocabulary ==
    probe.called => probe.out.decision.action \in {"fold", "check", "call", "raise"}

\* C7 witness: the contract answered all-in and the decision is a raise of
\* the whole stack
C7_Witness ==
    /\ Answered
    /\ probe.env.rawAction = "ALL-IN"
    /\ probe.out.decision.action = "raise"
    /\ probe.out.decision.raiseAmount
         = probe.gs.players[probe.bot].balance + probe.gs.players[probe.bot].currentBet

\* the answer's action is none of fold, check, call, raise, all-in
UnknownAnswer ==
    \/ probe.env.rawAction \in {"", Missing, NotAString}
    \/ toLowerCase(probe.env.rawAction) \notin KnownActions

\* C8 as stated: an answer whose action is none of fold, check, call, raise,
\* all-in, an empty or missing one included, gives the decision call
C8_UnknownActionCalls ==
    (Answered /\ UnknownAnswer) => probe.out.decision.action = "call"

\* C8 amended: an unknown action that is a non-empty string gives call; an
\* empty or missing action is read as fold by PokerPlayer.getAction and
\* gives fold; an action that is no string makes the mapping throw and
\* gives the failure default, check if nothing is owed and call otherwise
C8_UnknownActionCallsEmptyFolds ==
    (Answered /\ UnknownAnswer)
        => /\ probe.env.rawAction \notin {"", Missing, NotAString}
                => probe.out.decision = [action |-> "call", raiseAmount |-> NoAmount]
                   /\ ~probe.out.failed
           /\ probe.env.rawAction \in {"", Missing}
                => probe.out.decision.action = "fold" /\ ~probe.out.failed
           /\ probe.env.rawAction = NotAString
                => /\ probe.out.failed
                   /\ probe.out.decision.action
                        = IF Owes(probe.gs, probe.bot) = 0 THEN "check" ELSE "call"

\* C8 witness: the contract answered "bet" and the decision is call
C8_Witness ==
    /\ Answered
    /\ probe.env.rawAction = "bet"
    /\ probe.out.decision.action = "call"

\* C9 as stated: an action that violates its preconditions leaves the table
\* state exactly as it was, whoever's action it is
C9_IllegalActionKeepsState ==
    [][((IsBotResolveStep \/ IsPlayerActionStep)
          /\ ~IsLegalAction(StepTable, StepSeat, lastOp'.action, lastOp'.amount))
        => gameState' = StepTable]_vars

\* C9 amended: processPlayerAction rejects an action that violates its
\* preconditions without changing the table; an illegal action of the human
\* leaves the table state as it was, with the human still to act; an illegal
\* decision of a bot is replaced by a fold of that bot
C9_IllegalActionHumanKeepsStateBotFolds ==
    /\ [][(IsPlayerActionStep
            /\ ~IsLegalAction(gameState, HumanSeat, lastOp'.action, lastOp'.amount))
          => /\ lastOp'.threw
             /\ gameState' = gameState
             /\ gameState'.currentTurnIndex = HumanSeat]_vars
    /\ [][(IsBotResolveStep
            /\ ~IsLegalAction(StepTable, StepSeat, lastOp'.action, lastOp'.amount))
          => /\ lastOp'.threw
             /\ gameState'.players[StepSeat].folded
             /\ Balances(gameState') = Balances(StepTable)
             /\ Bets(gameState') = Bets(StepTable) \/ StreetAdvanced]_vars

\* C9 witness: the human's check was refused while chips were owed
C9_Witness ==
    /\ lastOp.kind = "human"
    /\ lastOp.threw
    /\ lastOp.action = "check"
    /\ gameState.currentTurnIndex = HumanSeat
    /\ gameState.currentBet > gameState.players[HumanSeat].currentBet

\* C10: an applied action ends the betting round exactly when, on the table
\* right after it, every non-folded seat is all-in or has acted since the
\* last raise and has matched the bet; after a raise that leaves another
\* seat able to act the round is not over
C10_RoundCompletion ==
    /\ [][((IsBotResolveStep \/ IsPlayerActionStep) /\ ~lastOp'.threw)
          => (StreetAdvanced <=> EverySeatSettled(StepApplied))]_vars
    /\ [][((IsBotResolveStep \/ IsPlayerActionStep) /\ ~lastOp'.threw
            /\ lastOp'.applied = "raise"
            /\ \E i \in Seats \ {StepSeat} : CanAct(StepTable.players[i]))
          => ~StreetAdvanced /\ gameState'.currentTurnIndex # StepSeat]_vars

\* C10 witness: heads-up, a raise to 40 was called and the round ended at
\* once, with neither seat all-in
C10_Witness ==
    /\ lastOp.applied = "call"
    /\ lastOp.toMatch = 40
    /\ lastOp.round = "preflop"
    /\ gameState.currentRound = "flop"
    /\ Cardinality({i \in Seats : Live(gameState.players[i])}) = 2
    /\ \A i \in Seats : Live(gameState.players[i]) => ~gameState.players[i].isAllIn
    /\ gameState.pot = 80

\* a handler applied an action in the step
IsAppliedStep == (IsBotResolveStep \/ IsPlayerActionStep) /\ ~lastOp'.threw
\* the seats other than `seat` that may still act on table gs
OthersToAct(gs, seat) ==
    {i \in Seats \ {seat} :
        gs.players[i].inGame /\ ~gs.players[i].folded /\ ~gs.players[i].isAllIn}
\* how far seat t sits after seat s, going round the table
SeatsAfter(s, t) == (t + NumPlayers - s) % NumPlayers

\* C11: after an applied action that does not complete the round, the active
\* seat becomes the nearest following seat in table order that is in the
\* hand, not folded and not all-in, and nothing else on the table changes;
\* when no other seat can act, the street is left
C11_TurnAdvancement ==
    /\ [][(IsAppliedStep /\ ~EverySeatSettled(StepApplied)
            /\ OthersToAct(StepApplied, StepSeat) # {})
          => /\ gameState'.currentTurnIndex \in OthersToAct(StepApplied, StepSeat)
             /\ \A t \in OthersToAct(StepApplied, StepSeat) :
                   SeatsAfter(StepSeat, gameState'.currentTurnIndex) <= SeatsAfter(StepSeat, t)
             /\ gameState' = [StepApplied EXCEPT
                                 !.currentTurnIndex = gameState'.currentTurnIndex]]_vars
    /\ [][(IsAppliedStep /\ OthersToAct(StepApplied, StepSeat) = {}) => StreetAdvanced]_vars

\* C11 witness: the turn went past a folded seat to the seat after it, on
\* the same street
C11_Witness ==
    /\ lastOp.kind \in {"bot", "human"}
    /\ ~lastOp.threw
    /\ gameState.currentRound = lastOp.round
    /\ gameState.players[(lastOp.seat + 1) % NumPlayers].folded
    /\ gameState.currentTurnIndex = (lastOp.seat + 2) % NumPlayers

\* a handler acted for a seat in the step, whether the action was applied,
\* refused or replaced by a fold
IsActionStep == IsBotResolveStep \/ IsPlayerActionStep
\* the seat is out of the betting on table gs: folded, eliminated or all-in
OutOfBetting(gs, seat) ==
    \/ ~gs.players[seat].inGame
    \/ gs.players[seat].folded
    \/ gs.players[seat].isAllIn

\* C12: a seat that has folded, is eliminated or is all-in does not act
\* again in the hand: no decision is requested from such a seat, no handler
\* acts for such a seat, and while the hand is played the seat stays out of
\* the betting with its stack untouched
C12_OutSeatsNeverAct ==
    /\ [](\A k \in 1 .. Len(requests) :
            /\ requests[k].bot = requests[k].gs.currentTurnIndex
            /\ ~OutOfBetting(requests[k].gs, requests[k].bot))
    /\ [][IsActionStep => ~OutOfBetting(StepTable, lastOp'.seat)]_vars
    /\ [][IsActionStep =>
            \A i \in Seats :
                OutOfBetting(StepTable, i) =>
                    /\ OutOfBetting(gameState', i)
                    /\ gameState'.players[i].folded = StepTable.players[i].folded
                    /\ gameState'.players[i].balance = StepTable.players[i].balance]_vars

\* C12 witness: a seat had folded and a handler has since applied a bet for
\* another seat on a later street of the same hand
C12_Witness ==
    /\ lastOp.kind \in {"bot", "human"}
    /\ lastOp.round \in {"flop", "turn", "river"}
    /\ lastOp.applied \in {"check", "call", "raise"}
    /\ ~gameState.isHandComplete
    /\ \E i \in Seats \ {lastOp.seat} : gameState.players[i].folded

\* the effect settled the hand in the step
IsSettleStep == lastOp'.kind = "settle" /\ lastOp' # lastOp
\* the step stays within the hand being played
SameHand == gameState # NoGame /\ handsPlayed' = handsPlayed

\* C13: a hand is settled at most once and before it is left: settlement is
\* applied only to a hand at showdown whose isHandComplete is not set, it sets
\* the flag and, when a seat is left in the hand, empties the pot; a hand whose
\* flag is set is not touched again; and the next hand is dealt only from a
\* settled hand
C13_SettledOncePerHand ==
    /\ [][IsSettleStep =>
            /\ gameState.currentRound = "showdown"
            /\ ~gameState.isHandComplete
            /\ gameState'.isHandComplete
            /\ ((\E i \in Seats : Live(gameState.players[i])) => gameState'.pot = 0)]_vars
    /\ [][(SameHand /\ gameState.isHandComplete) =>
            (gameState' = gameState /\ ~IsSettleStep)]_vars
    /\ [][(gameState # NoGame /\ handsPlayed' # handsPlayed) =>
            (gameState.isHandComplete /\ gameState.currentRound = "showdown")]_vars
    /\ [](gameState # NoGame =>
            (gameState.isHandComplete => gameState.currentRound = "showdown"))

\* C13 witness: the second hand has been settled, each hand once
C13_Witness ==
    /\ handsPlayed = 2
    /\ lastOp.kind = "settle"
    /\ lastOp.amount > 0
    /\ gameState.isHandComplete
    /\ gameState.pot = 0

\* table gs belongs to a hand played as a check-down: all three seats are in
\* the hand with chips behind, and the bet to match is the big blind before
\* the flop and nothing afterwards
CheckDownTable(gs) ==
    /\ \A i \in Seats :
          gs.players[i].inGame /\ ~gs.players[i].folded /\ ~gs.players[i].isAllIn
    /\ gs.currentRound \in {"preflop", "flop", "turn", "river"}
    /\ gs.currentBet = (IF gs.currentRound = "preflop" THEN BigBlind ELSE 0)
\* the seats that have already acted on the street of table gs
ActedOnStreet(gs) == {i \in Seats : gs.players[i].hasActed}
\* the street that follows street r in the order of play
StreetAfter(r) ==
    IF r = "preflop" THEN "flop"
    ELSE IF r = "flop" THEN "turn"
    ELSE IF r = "turn" THEN "river"
    ELSE "showdown"
\* the seats holding the best hand among the seats in set S
BestOf(strength, S) == {i \in S : \A j \in S : strength[i] >= strength[j]}

\* C14: in a three-handed hand with no fold and no raise (everyone calls the
\* big blind, then checks), the round is complete after the third action of a
\* street and not before, each completion moves the hand on by exactly one
\* street, and the settlement rewards exactly the best hands among all three
\* seats
C14_CheckDownScenario ==
    /\ [][(IsAppliedStep /\ CheckDownTable(StepTable)
            /\ lastOp'.applied \in {"check", "call"})
          => /\ EverySeatSettled(StepApplied)
                  <=> Cardinality(ActedOnStreet(StepTable)) = NumPlayers - 1
             /\ StreetAdvanced <=> EverySeatSettled(StepApplied)
             /\ StreetAdvanced
                  => gameState'.currentRound = StreetAfter(StepTable.currentRound)]_vars
    /\ [][(IsSettleStep /\ \A i \in Seats : Live(gameState.players[i]))
          => \E strength \in Strengths :
                \A i \in Seats :
                    (gameState'.players[i].balance > gameState.players[i].balance)
                        <=> i \in BestOf(strength, Seats)]_vars

\* C14 witness: the first hand was checked down and settled with the three
\* big blinds in the pot and all three seats in the hand
C14_Witness ==
    /\ handsPlayed = 1
    /\ lastOp.kind = "settle"
    /\ lastOp.amount = NumPlayers * BigBlind
    /\ \A i \in Seats : Live(gameState.players[i]) /\ ~gameState.players[i].isAllIn

\* the place of round r in the order of play
RoundRank(r) ==
    IF r = "preflop" THEN 0
    ELSE IF r = "flop" THEN 1
    ELSE IF r = "turn" THEN 2
    ELSE IF r = "river" THEN 3
    ELSE 4
BettingStreets == {"preflop", "flop", "turn", "river"}

LiveSeats(gs) == {i \in Seats : gs.players[i].inGame /\ ~gs.players[i].folded}
\* what seat i receives when pot chips are split among the seats in w
ShareOf(i, w, pot) ==
    IF i \notin w THEN 0
    ELSE (pot \div Cardinality(w))
         + (IF \A j \in w : i <= j THEN pot % Cardinality(w) ELSE 0)

\* C16: a settlement with a seat left in the hand loses no chips: the best
\* hands among the seats that have not folded split the pot evenly, the
\* remainder goes to the first of them in table order, no other seat
\* receives chips, and afterwards the pot is 0 and the stacks add up to the
\* total the hand started with
C16_ShowdownLosesNoChips ==
    [][(IsSettleStep /\ LiveSeats(gameState) # {})
       => /\ \E strength \in Strengths :
                \A i \in Seats :
                    gameState'.players[i].balance =
                        gameState.players[i].balance
                        + ShareOf(i, BestOf(strength, LiveSeats(gameState)), gameState.pot)
          /\ gameState'.pot = 0
          /\ SumOver([i \in Seats |-> gameState'.players[i].balance], Seats)
                = SumOver(initialBalancesRef, Seats)]_vars

\* C16 witness: a pot that does not divide evenly was split between two
\* all-in seats, and the first of them in table order holds the odd chip
C16_Witness ==
    /\ lastOp.kind = "settle"
    /\ gameState.isHandComplete
    /\ gameState.pot = 0
    /\ \E i, j \in Seats :
          /\ i < j
          /\ Live(gameState.players[i]) /\ gameState.players[i].isAllIn
          /\ Live(gameState.players[j]) /\ gameState.players[j].isAllIn
          /\ gameState.players[j].balance > 0
          /\ gameState.players[i].balance = gameState.players[j].balance + 1

\* a raise to `amount` is within the limits for `seat` on table gs
RaiseWithinLimits(gs, seat, amount) ==
    /\ amount >= gs.currentBet + BigBlind
    /\ amount <= gs.players[seat].balance + gs.players[seat].currentBet

\* C19: a raise asked for by the human or returned for a bot is applied
\* exactly when its total is at least the bet to match plus the big blind
\* and at most the seat's stack plus its current bet; a refused raise changes
\* nothing for the human and folds the bot; an applied raise commits the
\* seat's chips up to the total, and while another seat can act the street
\* is not left, the bet to match is the total, and every other seat still in
\* the hand has to act again
C19_RaiseLimits ==
    [][(IsActionStep /\ lastOp'.action = "raise")
       => /\ lastOp'.threw <=> ~RaiseWithinLimits(StepTable, lastOp'.seat, lastOp'.amount)
          /\ lastOp'.threw =>
                IF lastOp'.kind = "human" THEN gameState' = StepTable
                ELSE gameState'.players[lastOp'.seat].folded
          /\ ~lastOp'.threw =>
                /\ gameState'.players[lastOp'.seat].balance =
                      StepTable.players[lastOp'.seat].balance
                      - (lastOp'.amount - StepTable.players[lastOp'.seat].currentBet)
                /\ OthersToAct(StepTable, lastOp'.seat) # {} =>
                      /\ ~StreetAdvanced
                      /\ gameState'.currentBet = lastOp'.amount
                      /\ gameState'.players[lastOp'.seat].currentBet = lastOp'.amount
                      /\ gameState'.currentTurnIndex \in OthersToAct(StepTable, lastOp'.seat)
                      /\ \A i \in OthersToAct(StepTable, lastOp'.seat) :
                            ~gameState'.players[i].hasActed]_vars

\* C19 witness: three-handed before the flop, the seat on the button had
\* called the big blind and a blind then raised, so the button, its call
\* still on the table, has to act again
C19_Witness ==
    /\ lastOp.kind \in {"bot", "human"}
    /\ lastOp.applied = "raise"
    /\ lastOp.round = "preflop"
    /\ gameState.currentRound = "preflop"
    /\ gameState.currentBet = lastOp.amount
    /\ lastOp.seat # gameState.dealerPosition
    /\ \A i \in Seats : gameState.players[i].inGame
    /\ gameState.players[gameState.dealerPosition].currentBet = BigBlind
    /\ ~gameState.players[gameState.dealerPosition].folded
    /\ ~gameState.players[gameState.dealerPosition].hasActed

\* the hand is unfinished with a bot as the active seat, the human's timer
\* has run, and no request is outstanding or about to be issued
BotTurnStalled ==
    /\ gameState # NoGame
    /\ BotTurnWanted
    /\ requests = << >>
    /\ ~botEffectPending
    /\ ~deployEffectPending
    /\ timeouts = 0

\* C20: after a human action that leaves a bot to act, the bot's decision is
\* requested whichever of the bot-turn effect and the timer of
\* handlePlayerAction runs first: with a bot as the active seat of an
\* unfinished hand, a request is outstanding or the effect that issues it is
\* still to run
C20_BotServedAfterHumanAction ==
    (gameState # NoGame /\ BotTurnWanted /\ lastOp.kind \in {"human", "botRejected"})
        => (requests # << >> \/ botEffectPending)

\* once stalled, every later state is stalled: no step issues the request
C20_StallIsPermanent == [][BotTurnStalled => BotTurnStalled']_vars

\* a handler applied an action in the step: the one asked for, or the fold
\* handleBotTurn substitutes when applying the bot's action throws
IsAppliedOrFoldedStep ==
    \/ IsAppliedStep
    \/ IsBotResolveStep /\ lastOp'.threw /\ lastOp'.applied = "fold"

\* C21: after every applied action, the substituted fold included, round
\* completion is checked: when the round is complete on the table the action
\* produced the street is left, and the turn is handed to another seat on
\* the same street only when the round is not complete
C21_CompletionCheckedAfterEveryAction ==
    [][IsAppliedOrFoldedStep =>
          (EverySeatSettled(StepApplied) <=> StreetAdvanced)]_vars

\* C22: an action is only handled for the active seat: the seat a handler
\* acts for is the currentTurnIndex of the table the action is applied to;
\* the human's handler runs only when the human seat is the active seat of
\* an unfinished hand before showdown, a bot's only for the bot the request
\* was issued for, which is the active seat of the captured table; and no
\* other seat's stack, bet or fold flag is changed by the action
C22_OnlyActiveSeatActs ==
    [][IsActionStep =>
          /\ lastOp'.seat = StepTable.currentTurnIndex
          /\ StepTable.currentRound \in BettingStreets
          /\ ~StepTable.isHandComplete
          /\ IsPlayerActionStep =>
                /\ lastOp'.kind = "human"
                /\ lastOp'.seat = HumanSeat
                /\ StepTable = gameState
          /\ IsBotResolveStep =>
                /\ lastOp'.kind = "bot"
                /\ lastOp'.seat # HumanSeat
                /\ lastOp'.seat = requests[1].bot
          /\ \A i \in Seats \ {lastOp'.seat} :
                /\ gameState'.players[i].balance = StepTable.players[i].balance
                /\ gameState'.players[i].folded = StepTable.players[i].folded
                /\ gameState'.players[i].isAllIn = StepTable.players[i].isAllIn]_vars

\* C22 witness: the human, active seat on the turn, has called a bet
C22_Witness ==
    /\ lastOp.kind = "human"
    /\ lastOp.seat = HumanSeat
    /\ lastOp.applied = "call"
    /\ lastOp.round = "turn"
    /\ lastOp.toMatch > 0
    /\ ~gameState.players[HumanSeat].folded

\* C23: no table update is lost: while a request for a bot's decision is
\* pending the table is the one the request captured, no step other than the
\* resolution of the request changes the table, and the resolution writes
\* back a table computed from the current one
C23_NoLostUpdate ==
    /\ [](\A k \in 1 .. Len(requests) : requests[k].gs = gameState)
    /\ [][(requests # << >> /\ ~IsBotResolveStep) => gameState' = gameState]_vars
    /\ [][IsBotResolveStep => StepTable = gameState]_vars

\* C23 witness: in the second hand a request is pending on the river for the
\* table as it stands, after the human has acted in that hand
C23_Witness ==
    /\ handsPlayed = 2
    /\ Len(requests) = 1
    /\ requests[1].gs = gameState
    /\ gameState.currentRound = "river"
    /\ gameState.players[HumanSeat].hasActed

\* a hand is dealt in the step
IsNewHandStep == handsPlayed' # handsPlayed

ReleaseFairSpec == FairSpec /\ WF_vars(RunTimeout)

\* C25: the in-progress flag is always released: while it is set, the
\* request or the timer that clears it is pending; the resolution of a
\* request clears it whether the decision was applied, the action source
\* failed or applying threw, and takes the bot out of the thinking set; the
\* timer clears it; so a flag that is set is eventually cleared; and with no
\* request in flight no bot is thinking and the page is not busy
C25_FlagAlwaysReleased ==
    /\ [](isActionInProgressRef => (requests # << >> \/ timeouts > 0))
    /\ [](requests = << >> => (botThinking = {} /\ ~isProcessing))
    /\ [][IsBotResolveStep =>
            (~isActionInProgressRef' /\ ~isProcessing' /\ botThinking' = {})]_vars
    /\ [][(timeouts' < timeouts) => ~isActionInProgressRef']_vars
    /\ (isActionInProgressRef ~> ~isActionInProgressRef)

\* C25 witness: applying a bot's action threw, and with the request gone the
\* flag is clear and no bot is thinking
C25_Witness ==
    /\ lastOp.kind = "bot"
    /\ lastOp.threw
    /\ requests = << >>
    /\ ~isActionInProgressRef
    /\ botThinking = {}

\* no game id is stored under value id
NoStoredId(id) == id = NullId \/ id = ""
\* the request resolved in the step had no game id, so createGame was called
CreateGameCalled == IsBotResolveStep /\ NoStoredId(requests[1].botGameId)

\* C26 as stated: one remote game per bot per hand: a request carries the id
\* stored for its bot, so createGame is called only when none is stored; once
\* a call of createGame has succeeded an id is stored for the bot, so that
\* its later turns in the hand reuse it and create no further game; a stored
\* id is kept for the rest of the hand; and every deal clears the stored ids
C26_OneGamePerBotPerHand ==
    /\ [](\A k \in 1 .. Len(requests) :
            requests[k].botGameId = botGameIds[requests[k].bot])
    /\ [][(IsBotResolveStep /\ ~NoStoredId(requests[1].botGameId))
            => botGameIds'[requests[1].bot] = requests[1].botGameId]_vars
    /\ [][IsNewHandStep => \A b \in Bots : botGameIds'[b] = NullId]_vars
    /\ [][(CreateGameCalled /\ ~lastOp'.failed)
            => ~NoStoredId(botGameIds'[requests[1].bot])]_vars

\* C26: one remote game per bot per hand once createGame has returned an id:
\* a request carries the id stored for its bot, so createGame is called only
\* when none is stored; an id that createGame returned is stored, also when a
\* later call of the same request failed; a stored id is kept and reused for
\* the rest of the hand; every deal clears the stored ids; and when
\* createGame threw or its result held no id, nothing is stored and the
\* bot's next turn calls createGame again
C26_OneGamePerReturnedId ==
    /\ [](\A k \in 1 .. Len(requests) :
            requests[k].botGameId = botGameIds[requests[k].bot])
    /\ [][(IsBotResolveStep /\ ~NoStoredId(requests[1].botGameId))
            => /\ botGameIds'[requests[1].bot] = requests[1].botGameId
               /\ lastOp'.gameId = requests[1].botGameId]_vars
    /\ [][IsNewHandStep => \A b \in Bots : botGameIds'[b] = NullId]_vars
    /\ [][CreateGameCalled =>
            botGameIds'[requests[1].bot] =
                (IF NoStoredId(lastOp'.gameId) THEN botGameIds[requests[1].bot]
                 ELSE lastOp'.gameId)]_vars
    /\ [][IsBotResolveStep =>
            \A b \in Bots \ {requests[1].bot} : botGameIds'[b] = botGameIds[b]]_vars

\* C26 witness: on a later street of the hand a request is pending for a bot
\* and carries the id stored for it
C26_Witness ==
    /\ Len(requests) = 1
    /\ requests[1].botGameId = "g"
    /\ botGameIds[requests[1].bot] = "g"
    /\ gameState.currentRound = "turn"

\* the probed call created a game: it was made without an id and createGame
\* did not throw
ProbeCreated == probe.called /\ NoStoredId(probe.botGameId) /\ ~probe.env.createThrows
\* the id createGame handed back to the probed call
ProbeCreatedId == IF probe.env.rawGameId = Missing THEN "" ELSE probe.env.rawGameId

\* C27 as stated: when a remote call fails after createGame succeeded, the
\* fallback result carries the new id and the controller stores it; when
\* nothing was created the fallback result carries the id passed in
C27_CreatedIdSurvivesFailure ==
    (probe.called /\ probe.out.failed) =>
        IF ProbeCreated
        THEN /\ probe.out.gameId = ProbeCreatedId
             /\ StoresGameId(probe.out, probe.botGameId)
        ELSE probe.out.gameId = probe.botGameId

\* C27: when a remote call fails after createGame succeeded, the fallback
\* result carries the id createGame returned, and the controller stores it
\* exactly when it is not empty; when nothing was created the fallback
\* result carries the id passed in, which the controller has no need to
\* store again
C27_CreatedIdCarriedStoredIfNotEmpty ==
    (probe.called /\ probe.out.failed) =>
        IF ProbeCreated
        THEN /\ probe.out.gameId = ProbeCreatedId
             /\ StoresGameId(probe.out, probe.botGameId) <=> ProbeCreatedId # ""
        ELSE /\ probe.out.gameId = probe.botGameId
             /\ ~StoresGameId(probe.out, probe.botGameId)

\* C27 witness: createGame returned an id, getAction threw, and the fallback
\* result carries the id for the controller to store
C27_Witness ==
    /\ ProbeCreated
    /\ probe.env.rawGameId = "g"
    /\ probe.env.actionThrows
    /\ probe.out.failed
    /\ probe.out.calls = <<"createGame", "getAction">>
    /\ probe.out.gameId = "g"
    /\ StoresGameId(probe.out, probe.botGameId)

\* the probed call was made for a bot that has a remote game
ProbeHasGame == probe.called /\ ~NoStoredId(probe.botGameId)
\* position of call c in the probed call's sequence of remote calls, 0 if absent
CallIndex(c) ==
    IF \E k \in 1 .. Len(probe.out.calls) : probe.out.calls[k] = c
    THEN CHOOSE k \in 1 .. Len(probe.out.calls) : probe.out.calls[k] = c
    ELSE 0
\* the order of the remote calls for a bot with a game: getGameState first,
\* getAction last if it is made at all, no createGame
ProbeCallOrder ==
    /\ CallIndex("createGame") = 0
    /\ CallIndex("getGameState") = 1
    /\ CallIndex("getAction") > 0 =>
          /\ CallIndex("getAction") = Len(probe.out.calls)
          /\ CallIndex("updateStage") \in {0, 2}
    /\ CallIndex("getAction") = 0 => probe.out.failed

\* C28 as stated: for a bot with a remote game getGameState precedes
\* getAction, and whenever the board, the pot or the amount to call differs
\* from what the remote game holds, updateStage is called before getAction
C28_UpdatedWheneverDifferent ==
    ProbeHasGame =>
        /\ ProbeCallOrder
        /\ (~probe.env.stateThrows
            /\ (~probe.env.boardSame \/ probe.env.potDelta # 0 \/ probe.env.betDelta # 0))
              => CallIndex("updateStage") = 2

\* C28: for a bot with a remote game getGameState is the first remote call
\* and getAction, when made, the last; once getGameState has answered,
\* updateStage is called before getAction exactly when the board differs or
\* the pot or the amount to call differs by more than 1 from what the remote
\* game holds; and getAction follows unless an earlier call threw
C28_UpdatedWhenDifferentBeyondOne ==
    ProbeHasGame =>
        /\ ProbeCallOrder
        /\ ~probe.env.stateThrows =>
              (CallIndex("updateStage") = 2
                 <=> \/ ~probe.env.boardSame
                     \/ probe.env.potDelta > 1 \/ probe.env.potDelta < 0 - 1
                     \/ probe.env.betDelta > 1 \/ probe.env.betDelta < 0 - 1)
        /\ probe.env.stateThrows => probe.out.calls = <<"getGameState">>
        /\ CallIndex("getAction") > 0
              <=> (~probe.env.stateThrows
                   /\ ~(CallIndex("updateStage") = 2 /\ probe.env.updateThrows))

\* C28 witness: the remote pot was off by 2 with the board unchanged, and the
\* calls were getGameState, updateStage, getAction
C28_Witness ==
    /\ ProbeHasGame
    /\ probe.env.boardSame
    /\ probe.env.potDelta = 2
    /\ probe.env.betDelta = 0
    /\ probe.out.calls = <<"getGameState", "updateStage", "getAction">>
    /\ ~probe.out.failed

----------------------------------------------------------------------------
(* calculatePosition on its own: every seat and dealer of every table size *)

\* the largest table calculatePosition is tried on
MaxSeats == 9

\* calculatePosition: the contract's position code for a seat
calculatePosition(playerIndex, dealerPosition, numPlayers) ==
    LET relativePos == (playerIndex - dealerPosition - 1 + numPlayers) % numPlayers
    IN IF numPlayers = 3 /\ relativePos = 0 THEN 5
       ELSE IF numPlayers = 3 /\ relativePos = 1 THEN 6
       ELSE IF numPlayers = 3 /\ relativePos = 2 THEN 7
       ELSE Min(relativePos, 7)

PositionInit ==
    /\ account = FALSE
    /\ contract = FALSE
    /\ contractDeployed = FALSE
    /\ isDeploying = FALSE
    /\ deploymentError = FALSE
    /\ gameState = NoGame
    /\ isProcessing = FALSE
    /\ showNextHandButton = FALSE
    /\ botGameIds = [b \in Bots |-> NullId]
    /\ botThinking = {}
    /\ isActionInProgressRef = FALSE
    /\ initialBalancesRef = [i \in Seats |-> 0]
    /\ requests = <<>>
    /\ timeouts = 0
    /\ deploying = 0
    /\ botEffectPending = TRUE
    /\ deployEffectPending = TRUE
    /\ handsPlayed = 0
    /\ lastOp = NoOp
    /\ \E n \in 2 .. MaxSeats :
          \E p \in 0 .. (n - 1), d \in 0 .. (n - 1) :
              probe = [playerIndex |-> p, dealerPosition |-> d, numPlayers |-> n,
                       called |-> FALSE, position |-> 0 - 1]

PositionCall ==
    /\ ~probe.called
    /\ probe' = [probe EXCEPT
                    !.called = TRUE,
                    !.position = calculatePosition(probe.playerIndex, probe.dealerPosition,
                                                   probe.numPlayers)]
    /\ UNCHANGED <<account, contract, contractDeployed, isDeploying, deploymentError,
                   gameState, isProcessing, showNextHandButton, botGameIds, botThinking,
                   isActionInProgressRef, initialBalancesRef, requests, timeouts,
                   deploying, botEffectPending, deployEffectPending, handsPlayed, lastOp>>

PositionNext == PositionCall

PositionSpec == PositionInit /\ [][PositionNext]_vars

\* C29: calculatePosition returns a value in 0..7, and on a table of three
\* it reports the seat at dealerPosition as the Button (5), the next seat as
\* the Small Blind (6) and the seat after that as the Big Blind (7), for
\* every dealer position
C29_PositionMapping ==
    probe.called =>
        /\ probe.position \in 0 .. 7
        /\ probe.numPlayers = 3 =>
              probe.position =
                  5 + ((probe.playerIndex + 3 - probe.dealerPosition) % 3)

\* what holds of the code on a table of three: the codes 5, 6, 7 are given
\* one-to-one in table order, starting from the seat after the dealer
C29_ThreeSeatCodesFromSeatAfterDealer ==
    probe.called =>
        /\ probe.position \in 0 .. 7
        /\ probe.numPlayers = 3 =>
              probe.position =
                  5 + ((probe.playerIndex + 2 - probe.dealerPosition) % 3)

----------------------------------------------------------------------------
(* Deployment *)

\* a step in which deployContract passes its guard and starts a deployment
IsDeployStartStep == deploying' = deploying + 1

\* deployContract never starts while a deployment is in flight or after one
\* has succeeded
C30_OneDeploymentAtATime ==
    /\ [](deploying <= 1)
    /\ [][IsDeployStartStep => (deploying = 0 /\ ~isDeploying /\ ~contractDeployed)]_vars
    /\ [][contractDeployed => (contractDeployed' /\ ~IsDeployStartStep)]_vars

\* C30: deployContract is never invoked while another deployment is in
\* flight or after one has succeeded, and after a failed deployment the page
\* stays in the deployment-error state and starts no new deployment on its own
C30_DeployOnceFailureTerminal ==
    /\ [][IsDeployStartStep => (deploying = 0 /\ ~contractDeployed)]_vars
    /\ [][deploymentError => (deploymentError' /\ ~IsDeployStartStep)]_vars

====
